---- MODULE Spec2Model ----
(***************************************************************************)
(* Model of the two-level greedy LPT scheduler of src/solver.py:           *)
(* Job / ThreadSlot / Worker entities, ThreadPoolScheduler.greedy_lpt,     *)
(* _build_schedule, print_timeline and print_summary (specification Spec), *)
(* and of the checkpointed batch driver of src/rollout.py: process_dataset,*)
(* load_checkpoint, get_saved_indices, save_checkpoint and make_api_call   *)
(* (specification SpecR).                                                  *)
(*                                                                         *)
(* Durations are non-negative numbers; they are modelled by naturals.      *)
(* Python lists that are indexed from 0 (workers, threads, self.jobs) are  *)
(* functions over 0..n-1; a ThreadSlot's job list holds references to Job  *)
(* objects, modelled as job ids into the scheduler's job array.            *)
(***************************************************************************)
EXTENDS Integers, Sequences, FiniteSets, TLC

\* ---------------------------------------------------------------- bounds
MaxWorkers == 2
MaxThreads == 2
MaxJobs == 3
MaxDur == 2
MaxRuns == 2
MaxLines == 4
MaxCrashes == 2

WorkerCounts == -1..MaxWorkers
ThreadCounts == -1..MaxThreads

RECURSIVE SeqsUpTo(_, _)
SeqsUpTo(S, n) ==
    IF n = 0 THEN {<< >>}
    ELSE LET shorter == SeqsUpTo(S, n - 1)
         IN  shorter \cup {Append(s, x) : s \in {q \in shorter : Len(q) = n - 1}, x \in S}

DurationLists == SeqsUpTo(0..MaxDur, MaxJobs)

\* The two problem instances run by main().
MainInputs ==
    { [x |-> 2, y |-> 2, jobs |-> <<5, 3, 8, 6, 2>>],
      [x |-> 3, y |-> 3, jobs |-> <<10, 5, 8, 3, 6, 4, 7, 2, 9, 1>>] }

Inputs ==
    [x : WorkerCounts, y : ThreadCounts, jobs : DurationLists] \cup MainInputs

VARIABLES
    pc,                 \* position of the caller
    num_workers,        \* self.num_workers
    threads_per_worker, \* self.threads_per_worker
    durations,          \* the duration list handed to the constructor
    jobs,               \* self.jobs : job id -> Job
    num_jobs,           \* self.num_jobs
    sorted_jobs,        \* greedy_lpt local: job ids in processing order
    next_job,           \* greedy_lpt local: position of the for loop in sorted_jobs
    workers,            \* greedy_lpt local: worker id -> Worker
    total_time,         \* makespan returned by the last greedy_lpt call
    schedule,           \* timetable returned by the last greedy_lpt call
    runs,               \* number of greedy_lpt calls that have returned
    first_run,          \* what the caller saw after the first greedy_lpt call
    timeline,           \* segments printed by print_timeline
    summary,            \* figures printed by print_summary
    error,              \* exception that ended the program, or "none"
    \* ---- src/rollout.py
    rpc,                \* position of process_dataset
    lines,              \* the lines of input_file (their input_field text)
    checkpoint_file,    \* the file at checkpoint_path
    temp_file,          \* the file at checkpoint_path + '.tmp'
    output_file,        \* the file at output_file
    all_messages_out,   \* process_dataset local: result records so far
    saved_indices,      \* process_dataset local
    all_messages,       \* process_dataset local: the tasks handed to the pool
    pending,            \* tasks of the pool that have not finished
    result_queue,       \* manager.Queue(): results put and not yet taken
    remaining,          \* iterations the result loop still has to make
    items_since_save,   \* process_dataset local
    loaded,             \* len(all_messages_out) as loaded from the checkpoint
    crashes             \* number of interruptions so far

svars == <<pc, num_workers, threads_per_worker, durations, jobs, num_jobs,
           sorted_jobs, next_job, workers, total_time, schedule, runs,
           first_run, timeline, summary, error>>

rvars == <<rpc, lines, checkpoint_file, temp_file, output_file, all_messages_out,
           saved_indices, all_messages, pending, result_queue, remaining,
           items_since_save, loaded, crashes>>

vars == <<svars, rvars>>

\* ---------------------------------------------------------------- helpers
RECURSIVE SumFun(_, _)
SumFun(f, D) ==
    IF D = {} THEN 0
    ELSE LET d == CHOOSE e \in D : TRUE IN f[d] + SumFun(f, D \ {d})

\* max(values, default=dflt)
MaxDefault(S, dflt) == IF S = {} THEN dflt ELSE CHOOSE m \in S : \A e \in S : e <= m

\* min(values) over a non-empty collection
MinOf(S) == CHOOSE m \in S : \A e \in S : m <= e

\* ---------------------------------------------------------------- Job
Job(i, d) ==
    [id |-> i, duration |-> d, assigned_worker |-> -1, thread_id |-> -1,
     start_time |-> -1, end_time |-> -1]

\* ---------------------------------------------------------------- ThreadSlot
ThreadSlot(i) == [thread_id |-> i, jobs |-> << >>]

\* Variant: reads the first job of the list (jobs[0]) instead of the last.
get_end_time_first(t, J) ==
    IF t.jobs = << >> THEN 0 ELSE J[t.jobs[1]].end_time

get_end_time(t, J) ==
    IF t.jobs = << >> THEN 0 ELSE J[t.jobs[Len(t.jobs)]].end_time

get_available_time(t, J) == get_end_time(t, J)

\* Variant: the slot's list is replaced by [job] instead of being appended to.
add_job_overwrite(t, job, J) ==
    LET available_time == get_end_time(t, J)
        job1 == [job EXCEPT !.assigned_worker = -1,
                            !.thread_id = t.thread_id,
                            !.start_time = available_time,
                            !.end_time = available_time + job.duration]
    IN  [slot |-> [t EXCEPT !.jobs = <<job.id>>], job |-> job1]

\* Variant: end_time is set to available_time, the duration is not added.
add_job_no_duration(t, job, J) ==
    LET available_time == get_end_time(t, J)
        job1 == [job EXCEPT !.assigned_worker = -1,
                            !.thread_id = t.thread_id,
                            !.start_time = available_time,
                            !.end_time = available_time]
    IN  [slot |-> [t EXCEPT !.jobs = Append(t.jobs, job.id)], job |-> job1]

\* Variant: the job is appended before the available time is read, so the slot's
\* "last job" is the job itself and its own old end_time is used.
add_job_append_first(t, job, J) ==
    LET available_time == job.end_time
        job1 == [job EXCEPT !.assigned_worker = -1,
                            !.thread_id = t.thread_id,
                            !.start_time = available_time,
                            !.end_time = available_time + job.duration]
    IN  [slot |-> [t EXCEPT !.jobs = Append(t.jobs, job.id)], job |-> job1]

\* add_job writes the job's fields and appends it; returns both changed objects.
add_job(t, job, J) ==
    LET available_time == get_available_time(t, J)
        job1 == [job EXCEPT !.assigned_worker = -1,
                            !.thread_id = t.thread_id,
                            !.start_time = available_time,
                            !.end_time = available_time + job.duration]
    IN  [slot |-> [t EXCEPT !.jobs = Append(t.jobs, job.id)], job |-> job1]

\* ---------------------------------------------------------------- Worker
Worker(i, n) ==
    [id |-> i, num_threads |-> n, threads |-> [k \in 0..(n - 1) |-> ThreadSlot(k)]]

\* Variant: max() in place of min(): the first slot of maximal available time.
get_latest_available_thread(w, J) ==
    CHOOSE k \in DOMAIN w.threads :
        \A m \in DOMAIN w.threads :
            /\ get_available_time(w.threads[k], J) >= get_available_time(w.threads[m], J)
            /\ (get_available_time(w.threads[m], J) = get_available_time(w.threads[k], J)
                    => k <= m)

\* min(self.threads, key=available time): index of the first minimal slot.
get_earliest_available_thread(w, J) ==
    CHOOSE k \in DOMAIN w.threads :
        \A m \in DOMAIN w.threads :
            /\ get_available_time(w.threads[k], J) <= get_available_time(w.threads[m], J)
            /\ (get_available_time(w.threads[m], J) = get_available_time(w.threads[k], J)
                    => k <= m)

\* Variant: min() in place of max().
get_total_end_time_min(w, J) ==
    IF DOMAIN w.threads = {} THEN 0
    ELSE MinOf({get_end_time(w.threads[k], J) : k \in DOMAIN w.threads})

get_total_end_time(w, J) ==
    MaxDefault({get_end_time(w.threads[k], J) : k \in DOMAIN w.threads}, 0)

assign_job(w, job, J) ==
    LET k == get_earliest_available_thread(w, J)
        job1 == [job EXCEPT !.assigned_worker = w.id]
        r == add_job(w.threads[k], job1, J)
    IN  [worker |-> [w EXCEPT !.threads[k] = r.slot], job |-> r.job]

\* ---------------------------------------------------------------- ThreadPoolScheduler
\* sorted(self.jobs, key=duration, reverse=True): stable, descending.
RECURSIVE InsertDesc(_, _, _)
InsertDesc(s, j, J) ==
    IF s = << >> THEN <<j>>
    ELSE IF J[Head(s)].duration >= J[j].duration
         THEN <<Head(s)>> \o InsertDesc(Tail(s), j, J)
         ELSE <<j>> \o s

RECURSIVE SortPrefix(_, _)
SortPrefix(n, J) ==
    IF n = 0 THEN << >> ELSE InsertDesc(SortPrefix(n - 1, J), n - 1, J)

\* Variant: reverse=True is missing, the jobs are sorted ascending (stable).
RECURSIVE InsertAsc(_, _, _)
InsertAsc(s, j, J) ==
    IF s = << >> THEN <<j>>
    ELSE IF J[Head(s)].duration <= J[j].duration
         THEN <<Head(s)>> \o InsertAsc(Tail(s), j, J)
         ELSE <<j>> \o s

RECURSIVE SortPrefixAsc(_, _)
SortPrefixAsc(n, J) ==
    IF n = 0 THEN << >> ELSE InsertAsc(SortPrefixAsc(n - 1, J), n - 1, J)

sorted_asc(J, n) == SortPrefixAsc(n, J)

\* Variant: descending, but equal durations come out in reverse input order
\* (an ascending sort that is reversed afterwards).
RECURSIVE InsertDescTiesFirst(_, _, _)
InsertDescTiesFirst(s, j, J) ==
    IF s = << >> THEN <<j>>
    ELSE IF J[Head(s)].duration > J[j].duration
         THEN <<Head(s)>> \o InsertDescTiesFirst(Tail(s), j, J)
         ELSE <<j>> \o s

RECURSIVE SortPrefixTiesFirst(_, _)
SortPrefixTiesFirst(n, J) ==
    IF n = 0 THEN << >>
    ELSE InsertDescTiesFirst(SortPrefixTiesFirst(n - 1, J), n - 1, J)

sorted_desc_reversed_ties(J, n) == SortPrefixTiesFirst(n, J)

sorted_desc(J, n) == SortPrefix(n, J)

\* min(workers, key=available time of the worker's earliest slot): first minimal worker.
WorkerKey(w, J) ==
    get_available_time(w.threads[get_earliest_available_thread(w, J)], J)

\* Variant: the workers are compared by their total completion time.
best_worker_by_total(W, J) ==
    CHOOSE i \in DOMAIN W :
        \A m \in DOMAIN W :
            /\ get_total_end_time(W[i], J) <= get_total_end_time(W[m], J)
            /\ (get_total_end_time(W[m], J) = get_total_end_time(W[i], J) => i <= m)

best_worker(W, J) ==
    CHOOSE i \in DOMAIN W :
        \A m \in DOMAIN W :
            /\ WorkerKey(W[i], J) <= WorkerKey(W[m], J)
            /\ (WorkerKey(W[m], J) = WorkerKey(W[i], J) => i <= m)

\* Variant: thread slots without jobs are left out of the timetable.
_build_schedule_skip_empty(W, J) ==
    [i \in DOMAIN W |->
        [k \in {m \in DOMAIN W[i].threads : W[i].threads[m].jobs # << >>} |->
            [p \in 1..Len(W[i].threads[k].jobs) |->
                LET job == J[W[i].threads[k].jobs[p]]
                IN  [job_id |-> job.id, duration |-> job.duration,
                     start_time |-> job.start_time, end_time |-> job.end_time]]]]

_build_schedule(W, J) ==
    [i \in DOMAIN W |->
        [k \in DOMAIN W[i].threads |->
            [p \in 1..Len(W[i].threads[k].jobs) |->
                LET job == J[W[i].threads[k].jobs[p]]
                IN  [job_id |-> job.id, duration |-> job.duration,
                     start_time |-> job.start_time, end_time |-> job.end_time]]]]

\* ---------------------------------------------------------------- print_timeline
\* sorted(jobs, key=start_time): stable, ascending.
RECURSIVE InsertByStart(_, _)
InsertByStart(s, r) ==
    IF s = << >> THEN <<r>>
    ELSE IF Head(s).start_time <= r.start_time
         THEN <<Head(s)>> \o InsertByStart(Tail(s), r)
         ELSE <<r>> \o s

RECURSIVE SortByStart(_)
SortByStart(rs) ==
    IF rs = << >> THEN << >>
    ELSE InsertByStart(SortByStart(SubSeq(rs, 1, Len(rs) - 1)), rs[Len(rs)])

\* Lines 122-133: the segments of one thread slot, left to right.  The printed
\* lengths are kept as numbers ("{:.1f}" is one-to-one on them).
RECURSIVE Segments(_, _, _)
Segments(rs, current_time, total) ==
    IF rs = << >>
    THEN IF current_time < total
         THEN <<[kind |-> "Idle", len |-> total - current_time]>>
         ELSE << >>
    ELSE LET job == Head(rs)
             gap == IF job.start_time > current_time
                    THEN <<[kind |-> "Idle", len |-> job.start_time - current_time]>>
                    ELSE << >>
         IN  gap \o <<[kind |-> "J", job_id |-> job.job_id, len |-> job.duration]>>
                 \o Segments(Tail(rs), job.end_time, total)

Timeline(sch, total) ==
    [i \in DOMAIN sch |->
        [k \in DOMAIN sch[i] |-> Segments(SortByStart(sch[i][k]), 0, total)]]

\* ---------------------------------------------------------------- print_summary
\* Variant: the outer max() over the worker's threads is a min().
worker_time_min(ws) ==
    IF DOMAIN ws = {} THEN 0
    ELSE MinOf({MaxDefault({ws[k][p].end_time : p \in 1..Len(ws[k])}, 0) : k \in DOMAIN ws})

\* Completion time of one worker as recomputed from the timetable.
worker_time(ws) ==
    MaxDefault({MaxDefault({ws[k][p].end_time : p \in 1..Len(ws[k])}, 0) : k \in DOMAIN ws}, 0)

worker_times(sch) == [i \in DOMAIN sch |-> worker_time(sch[i])]

total_job_time(J) == SumFun([i \in DOMAIN J |-> J[i].duration], DOMAIN J)

\* Ratios are kept exact as numerator/denominator pairs.
Summary(J, sch, nw, tpw) ==
    LET wt == worker_times(sch)
        n == Cardinality(DOMAIN wt)
        sum_wt == SumFun(wt, DOMAIN wt)
        max_wt == MaxDefault({wt[i] : i \in DOMAIN wt}, 0)
        total_thread_time == sum_wt * tpw
    IN  [total_job_time |-> total_job_time(J),
         theoretical_min |-> [num |-> total_job_time(J), den |-> nw * tpw],
         worker_times |-> wt,
         average |-> [num |-> sum_wt, den |-> n],
         max_time |-> max_wt,
         min_time |-> MinOf({wt[i] : i \in DOMAIN wt}),
         load_balance |-> [num |-> max_wt * n, den |-> sum_wt],
         total_thread_time |-> total_thread_time,
         utilization |-> IF total_thread_time > 0
                         THEN [num |-> total_job_time(J) * 100, den |-> total_thread_time]
                         ELSE [num |-> 0, den |-> 1]]

\* The exception print_summary raises, or "none" (lines 152, 161, 164).
SummaryError(J, sch, nw, tpw) ==
    LET wt == worker_times(sch)
    IN  IF nw * tpw = 0 THEN "ZeroDivisionError"
        ELSE IF DOMAIN wt = {} THEN "ZeroDivisionError"
        ELSE IF SumFun(wt, DOMAIN wt) = 0 THEN "ZeroDivisionError"
        ELSE "none"

\* ---------------------------------------------------------------- rollout.py
\* SAVE_INTERVAL is 50 in the source; it is scaled down to 2 here so that input
\* files of up to MaxLines lines fall short of it, reach it exactly and reach it
\* twice (a second save over an existing checkpoint).
SAVE_INTERVAL == 2

\* A file is absent, opened for writing and not yet completely written, or
\* holds a complete JSON document.
Absent == [kind |-> "absent", data |-> << >>]
Partial == [kind |-> "partial", data |-> << >>]
Complete(d) == [kind |-> "complete", data |-> d]

\* The input files: 0..MaxLines lines; the text of the input_field repeats
\* every other line, so files with equal and with different lines both occur.
LineText(p) == IF p % 2 = 1 THEN "a" ELSE "b"
InputFiles == {[p \in 1..n |-> LineText(p)] : n \in 0..MaxLines}

\* json.load of the checkpoint; a missing or undecodable file gives [].
load_checkpoint(f) == IF f.kind = "complete" THEN f.data ELSE << >>

get_saved_indices(f) ==
    IF f.kind = "complete" THEN {f.data[p].index : p \in 1..Len(f.data)} ELSE {}

\* Lines 101-107: the (messages, idx) tasks of the lines not in saved_indices,
\* in file order.
RECURSIVE TasksFrom(_, _, _)
TasksFrom(L, idx, saved) ==
    IF idx >= Len(L) THEN << >>
    ELSE (IF idx \notin saved THEN <<[messages |-> L[idx + 1], index |-> idx]>> ELSE << >>)
             \o TasksFrom(L, idx + 1, saved)

\* The record make_api_call puts on the queue.  The fields taken from the API
\* response (output, time, token counts) are opaque payload and left out.
out_dict(task) == [index |-> task.index, input |-> task.messages]

\* all_messages_out.sort(key=index): stable, ascending.
RECURSIVE InsertByIndex(_, _)
InsertByIndex(s, r) ==
    IF s = << >> THEN <<r>>
    ELSE IF Head(s).index <= r.index
         THEN <<Head(s)>> \o InsertByIndex(Tail(s), r)
         ELSE <<r>> \o s

RECURSIVE SortByIndex(_)
SortByIndex(rs) ==
    IF rs = << >> THEN << >>
    ELSE InsertByIndex(SortByIndex(SubSeq(rs, 1, Len(rs) - 1)), rs[Len(rs)])

\* del item['index']
DelIndex(rs) == [p \in 1..Len(rs) |-> [input |-> rs[p].input]]

SaveSteps == {"save_open", "save_dump", "save_remove", "save_rename"}
WriteSteps == {"out_open", "out_dump", "cleanup"}

\* ---------------------------------------------------------------- state machine
NoRun == [total_time |-> 0, schedule |-> << >>, jobs |-> << >>]
NoSummary == [total_job_time |-> -1]

\* The files and locals of rollout.py before process_dataset is called.
RolloutNotStarted(L) ==
    /\ rpc = "idle"
    /\ lines = L
    /\ checkpoint_file = Absent
    /\ temp_file = Absent
    /\ output_file = Absent
    /\ all_messages_out = << >>
    /\ saved_indices = {}
    /\ all_messages = << >>
    /\ pending = {}
    /\ result_queue = << >>
    /\ remaining = 0
    /\ items_since_save = 0
    /\ loaded = 0
    /\ crashes = 0

Init ==
    /\ \E inp \in Inputs :
          /\ num_workers = inp.x
          /\ threads_per_worker = inp.y
          /\ durations = inp.jobs
    /\ pc = "start"
    /\ jobs = << >>
    /\ num_jobs = 0
    /\ sorted_jobs = << >>
    /\ next_job = 1
    /\ workers = << >>
    /\ total_time = 0
    /\ schedule = << >>
    /\ runs = 0
    /\ first_run = NoRun
    /\ timeline = << >>
    /\ summary = NoSummary
    /\ error = "none"
    /\ RolloutNotStarted(<< >>)

\* ThreadPoolScheduler.__init__
Construct ==
    /\ pc = "start"
    /\ jobs' = [i \in 0..(Len(durations) - 1) |-> Job(i, durations[i + 1])]
    /\ num_jobs' = Len(durations)
    /\ pc' = "constructed"
    /\ UNCHANGED <<num_workers, threads_per_worker, durations, sorted_jobs, next_job,
                   workers, total_time, schedule, runs, first_run, timeline, summary, error>>
    /\ UNCHANGED rvars

\* Variant: the workers are built once and kept across calls of greedy_lpt.
BeginRunKeepWorkers ==
    /\ pc \in {"constructed", "returned", "timelined", "summarized"}
    /\ runs < MaxRuns
    /\ sorted_jobs' = sorted_desc(jobs, num_jobs)
    /\ workers' = IF runs = 0
                  THEN [i \in 0..(num_workers - 1) |-> Worker(i, threads_per_worker)]
                  ELSE workers
    /\ next_job' = 1
    /\ pc' = "running"
    /\ UNCHANGED <<num_workers, threads_per_worker, durations, jobs, num_jobs,
                   total_time, schedule, runs, first_run, timeline, summary, error>>
    /\ UNCHANGED rvars

\* greedy_lpt, lines 69-71: sort the jobs and build fresh workers.
BeginRun ==
    /\ pc \in {"constructed", "returned", "timelined", "summarized"}
    /\ runs < MaxRuns
    /\ sorted_jobs' = sorted_desc(jobs, num_jobs)
    /\ workers' = [i \in 0..(num_workers - 1) |-> Worker(i, threads_per_worker)]
    /\ next_job' = 1
    /\ pc' = "running"
    /\ UNCHANGED <<num_workers, threads_per_worker, durations, jobs, num_jobs,
                   total_time, schedule, runs, first_run, timeline, summary, error>>
    /\ UNCHANGED rvars

\* greedy_lpt, lines 73-76: one iteration of the for loop.  min() of an empty
\* worker list, or of a worker's empty thread list, raises ValueError.
AssignStep ==
    /\ pc = "running"
    /\ next_job <= Len(sorted_jobs)
    /\ IF num_workers <= 0 \/ threads_per_worker <= 0
       THEN /\ pc' = "raised"
            /\ error' = "ValueError"
            /\ UNCHANGED <<jobs, workers, next_job>>
       ELSE LET b == best_worker(workers, jobs)
                j == sorted_jobs[next_job]
                r == assign_job(workers[b], jobs[j], jobs)
            IN  /\ workers' = [workers EXCEPT ![b] = r.worker]
                /\ jobs' = [jobs EXCEPT ![j] = r.job]
                /\ next_job' = next_job + 1
                /\ UNCHANGED <<pc, error>>
    /\ UNCHANGED <<num_workers, threads_per_worker, durations, num_jobs, sorted_jobs,
                   total_time, schedule, runs, first_run, timeline, summary>>
    /\ UNCHANGED rvars

\* greedy_lpt, lines 78-80: makespan and timetable are returned to the caller.
FinishRun ==
    /\ pc = "running"
    /\ next_job > Len(sorted_jobs)
    /\ total_time' = MaxDefault({get_total_end_time(workers[i], jobs) : i \in DOMAIN workers}, 0)
    /\ schedule' = _build_schedule(workers, jobs)
    /\ runs' = runs + 1
    /\ first_run' = IF runs = 0
                    THEN [total_time |-> total_time', schedule |-> schedule', jobs |-> jobs]
                    ELSE first_run
    /\ pc' = "returned"
    /\ UNCHANGED <<num_workers, threads_per_worker, durations, jobs, num_jobs,
                   sorted_jobs, next_job, workers, timeline, summary, error>>
    /\ UNCHANGED rvars

\* print_timeline(schedule, total_time) on the result of the last run.
PrintTimeline ==
    /\ pc = "returned"
    /\ timeline' = Timeline(schedule, total_time)
    /\ pc' = "timelined"
    /\ UNCHANGED <<num_workers, threads_per_worker, durations, jobs, num_jobs,
                   sorted_jobs, next_job, workers, total_time, schedule, runs,
                   first_run, summary, error>>
    /\ UNCHANGED rvars

\* print_summary(total_time, schedule) on the result of the last run.
PrintSummary ==
    /\ pc \in {"returned", "timelined"}
    /\ LET e == SummaryError(jobs, schedule, num_workers, threads_per_worker)
       IN  IF e = "none"
           THEN /\ summary' = Summary(jobs, schedule, num_workers, threads_per_worker)
                /\ pc' = "summarized"
                /\ UNCHANGED error
           ELSE /\ error' = e
                /\ pc' = "raised"
                /\ UNCHANGED summary
    /\ UNCHANGED <<num_workers, threads_per_worker, durations, jobs, num_jobs,
                   sorted_jobs, next_job, workers, total_time, schedule, runs, first_run,
                   timeline>>
    /\ UNCHANGED rvars

Next ==
    \/ Construct
    \/ BeginRun
    \/ AssignStep
    \/ FinishRun
    \/ PrintTimeline
    \/ PrintSummary

Spec == Init /\ [][Next]_vars

\* ---------------------------------------------------------------- process_dataset
InitR ==
    /\ pc = "start"
    /\ num_workers = 1
    /\ threads_per_worker = 1
    /\ durations = << >>
    /\ jobs = << >>
    /\ num_jobs = 0
    /\ sorted_jobs = << >>
    /\ next_job = 1
    /\ workers = << >>
    /\ total_time = 0
    /\ schedule = << >>
    /\ runs = 0
    /\ first_run = NoRun
    /\ timeline = << >>
    /\ summary = NoSummary
    /\ error = "none"
    /\ \E L \in InputFiles : RolloutNotStarted(L)

\* Lines 84-126: load the checkpoint, build the task list, return early if it is
\* empty, otherwise hand the tasks to the pool.  (The pool has 64 processes, so
\* all tasks of the inputs considered here can run at once.)
Start ==
    /\ rpc \in {"idle", "crashed"}
    /\ LET out == load_checkpoint(checkpoint_file)
           saved == get_saved_indices(checkpoint_file)
           msgs == TasksFrom(lines, 0, saved)
       IN  /\ all_messages_out' = out
           /\ saved_indices' = saved
           /\ loaded' = Len(out)
           /\ all_messages' = msgs
           /\ pending' = {msgs[p] : p \in 1..Len(msgs)}
           /\ remaining' = Len(msgs)
           /\ rpc' = IF msgs = << >> THEN "done" ELSE "pool"
    /\ result_queue' = << >>
    /\ items_since_save' = 0
    /\ UNCHANGED <<lines, checkpoint_file, temp_file, output_file, crashes>>
    /\ UNCHANGED svars

\* make_api_call in a pool process: the call returns and its record is queued.
\* Pool processes run while the main process is in the loop or in save_checkpoint.
TaskDone ==
    /\ rpc \in {"pool"} \cup SaveSteps
    /\ \E task \in pending :
          /\ pending' = pending \ {task}
          /\ result_queue' = Append(result_queue, out_dict(task))
    /\ UNCHANGED <<rpc, lines, checkpoint_file, temp_file, output_file, all_messages_out,
                   saved_indices, all_messages, remaining, items_since_save, loaded,
                   crashes>>
    /\ UNCHANGED svars

\* Lines 127-132: one iteration of the result loop.  imap_unordered yields once
\* per finished task and every finished task has queued its record before.
LoopStep ==
    /\ rpc = "pool"
    /\ remaining > 0
    /\ result_queue # << >>
    /\ all_messages_out' = Append(all_messages_out, Head(result_queue))
    /\ result_queue' = Tail(result_queue)
    /\ remaining' = remaining - 1
    /\ items_since_save' = items_since_save + 1
    /\ rpc' = IF items_since_save + 1 >= SAVE_INTERVAL THEN "save_open" ELSE "pool"
    /\ UNCHANGED <<lines, checkpoint_file, temp_file, output_file, saved_indices,
                   all_messages, pending, loaded, crashes>>
    /\ UNCHANGED svars

\* save_checkpoint line 49: open(temp_path, 'w') creates or truncates the file.
SaveOpenTemp ==
    /\ rpc = "save_open"
    /\ temp_file' = Partial
    /\ rpc' = "save_dump"
    /\ UNCHANGED <<lines, checkpoint_file, output_file, all_messages_out, saved_indices,
                   all_messages, pending, result_queue, remaining, items_since_save,
                   loaded, crashes>>
    /\ UNCHANGED svars

\* save_checkpoint line 50: json.dump and close.
SaveDumpTemp ==
    /\ rpc = "save_dump"
    /\ temp_file' = Complete(all_messages_out)
    /\ rpc' = "save_remove"
    /\ UNCHANGED <<lines, checkpoint_file, output_file, all_messages_out, saved_indices,
                   all_messages, pending, result_queue, remaining, items_since_save,
                   loaded, crashes>>
    /\ UNCHANGED svars

\* save_checkpoint lines 52-53: remove the old checkpoint if there is one.
SaveRemove ==
    /\ rpc = "save_remove"
    /\ checkpoint_file' = IF checkpoint_file.kind # "absent" THEN Absent ELSE checkpoint_file
    /\ rpc' = "save_rename"
    /\ UNCHANGED <<lines, temp_file, output_file, all_messages_out, saved_indices,
                   all_messages, pending, result_queue, remaining, items_since_save,
                   loaded, crashes>>
    /\ UNCHANGED svars

\* save_checkpoint line 54 and lines 134-135: rename, then reset the counter.
SaveRename ==
    /\ rpc = "save_rename"
    /\ checkpoint_file' = temp_file
    /\ temp_file' = Absent
    /\ items_since_save' = 0
    /\ rpc' = "pool"
    /\ UNCHANGED <<lines, output_file, all_messages_out, saved_indices, all_messages,
                   pending, result_queue, remaining, loaded, crashes>>
    /\ UNCHANGED svars

\* Lines 138-140: the loop is over; sort by index and delete the index field.
FinalSort ==
    /\ rpc = "pool"
    /\ remaining = 0
    /\ all_messages_out' = DelIndex(SortByIndex(all_messages_out))
    /\ rpc' = "out_open"
    /\ UNCHANGED <<lines, checkpoint_file, temp_file, output_file, saved_indices,
                   all_messages, pending, result_queue, remaining, items_since_save,
                   loaded, crashes>>
    /\ UNCHANGED svars

\* Line 143: open(output_file, 'w').
OutOpen ==
    /\ rpc = "out_open"
    /\ output_file' = Partial
    /\ rpc' = "out_dump"
    /\ UNCHANGED <<lines, checkpoint_file, temp_file, all_messages_out, saved_indices,
                   all_messages, pending, result_queue, remaining, items_since_save,
                   loaded, crashes>>
    /\ UNCHANGED svars

\* Line 144: json.dump and close.
OutDump ==
    /\ rpc = "out_dump"
    /\ output_file' = Complete(all_messages_out)
    /\ rpc' = "cleanup"
    /\ UNCHANGED <<lines, checkpoint_file, temp_file, all_messages_out, saved_indices,
                   all_messages, pending, result_queue, remaining, items_since_save,
                   loaded, crashes>>
    /\ UNCHANGED svars

\* Lines 149-151: remove the checkpoint if there is one.
Cleanup ==
    /\ rpc = "cleanup"
    /\ checkpoint_file' = IF checkpoint_file.kind # "absent" THEN Absent ELSE checkpoint_file
    /\ rpc' = "done"
    /\ UNCHANGED <<lines, temp_file, output_file, all_messages_out, saved_indices,
                   all_messages, pending, result_queue, remaining, items_since_save,
                   loaded, crashes>>
    /\ UNCHANGED svars

\* The process is interrupted (killed, or an API call raised): its memory, pool
\* and queue are gone, the files stay as they are.
Crash ==
    /\ rpc \in {"pool"} \cup SaveSteps \cup WriteSteps
    /\ crashes < MaxCrashes
    /\ crashes' = crashes + 1
    /\ rpc' = "crashed"
    /\ all_messages_out' = << >>
    /\ saved_indices' = {}
    /\ all_messages' = << >>
    /\ pending' = {}
    /\ result_queue' = << >>
    /\ remaining' = 0
    /\ items_since_save' = 0
    /\ loaded' = 0
    /\ UNCHANGED <<lines, checkpoint_file, temp_file, output_file>>
    /\ UNCHANGED svars

NextR ==
    \/ Start
    \/ TaskDone
    \/ LoopStep
    \/ SaveOpenTemp
    \/ SaveDumpTemp
    \/ SaveRemove
    \/ SaveRename
    \/ FinalSort
    \/ OutOpen
    \/ OutDump
    \/ Cleanup
    \/ Crash

SpecR == InitR /\ [][NextR]_vars

\* ================================================================ properties
Valid == num_workers >= 1 /\ threads_per_worker >= 1

\* Positions <<worker, thread, index>> of the entries of a timetable.
Entries(sch) ==
    UNION {UNION {{<<i, k, p>> : p \in 1..Len(sch[i][k])} : k \in DOMAIN sch[i]}
              : i \in DOMAIN sch}

AllZero == \A p \in 1..Len(durations) : durations[p] = 0

ScenarioA == num_workers = 2 /\ threads_per_worker = 2 /\ durations = <<5, 3, 8, 6, 2>>

\* C1 (Conservation): for valid counts, the timetable returned by greedy_lpt
\* holds every job id of 0..len(durations)-1 exactly once and no other id.
C1_Conservation ==
    (runs >= 1 /\ Valid) =>
        /\ \A e \in Entries(schedule) :
              schedule[e[1]][e[2]][e[3]].job_id \in 0..(Len(durations) - 1)
        /\ \A id \in 0..(Len(durations) - 1) :
              Cardinality({e \in Entries(schedule) :
                              schedule[e[1]][e[2]][e[3]].job_id = id}) = 1

C1_Witness ==
    /\ runs >= 1 /\ Valid /\ Len(durations) = MaxJobs
    /\ \E e \in Entries(schedule) : e[3] >= 2

\* C2 (Non-overlap): after any number of assignment steps, in every thread slot
\* each job ends no later than the next job of the slot starts.
C2_NonOverlap ==
    \A i \in DOMAIN workers :
        \A k \in DOMAIN workers[i].threads :
            LET js == workers[i].threads[k].jobs
            IN  \A p \in 1..(Len(js) - 1) :
                    jobs[js[p]].end_time <= jobs[js[p + 1]].start_time

C2_Witness ==
    /\ pc = "running"
    /\ \E i \in DOMAIN workers :
        \E k \in DOMAIN workers[i].threads :
            LET js == workers[i].threads[k].jobs
            IN  Len(js) >= 3 /\ jobs[js[2]].duration > 0

\* C3 (Makespan): for valid counts the returned makespan is the maximum end_time
\* of the returned timetable, and it is zero exactly when there is no job or
\* every duration is zero.
C3_Makespan ==
    (runs >= 1 /\ Valid) =>
        /\ total_time = MaxDefault({schedule[e[1]][e[2]][e[3]].end_time :
                                        e \in Entries(schedule)}, 0)
        /\ (total_time = 0 <=> AllZero)

C3_Witness ==
    /\ runs >= 1 /\ Valid /\ total_time > 0
    /\ \E e \in Entries(schedule) : schedule[e[1]][e[2]][e[3]].end_time < total_time
    /\ \E e \in Entries(schedule) : e[2] >= 1 /\ schedule[e[1]][e[2]][e[3]].end_time = total_time

\* C4 (InvalidConfiguration): with worker_count <= 0 or threads_per_worker <= 0
\* construction fails; no scheduler exists and no run can start.
C4_ConstructionRejects ==
    (num_workers <= 0 \/ threads_per_worker <= 0) =>
        /\ pc \notin {"constructed", "running", "returned", "summarized"}
        /\ (pc = "raised" => error = "InvalidConfiguration")

\* C5 (Scenario A, as stated): durations [5,3,8,6,2] on 2 workers x 2 threads are
\* processed in the order 8,6,5,3,2 and the makespan is 11.
C5_ScenarioA_Original ==
    (ScenarioA /\ runs >= 1) =>
        /\ [p \in 1..Len(sorted_jobs) |-> jobs[sorted_jobs[p]].duration] = <<8, 6, 5, 3, 2>>
        /\ total_time = 11

\* C5 (Scenario A, amended): durations [5,3,8,6,2] on 2 workers x 2 threads are
\* processed in the order 8,6,5,3,2 and the makespan is 8.
C5_ScenarioA ==
    (ScenarioA /\ runs >= 1) =>
        /\ [p \in 1..Len(sorted_jobs) |-> jobs[sorted_jobs[p]].duration] = <<8, 6, 5, 3, 2>>
        /\ total_time = 8

C5_Witness == ScenarioA /\ runs >= 1 /\ pc = "returned"

\* C6 (Placement record): after greedy_lpt every scheduled job's assigned_worker
\* is the id of the worker holding it and its thread_id the id of its slot.
C6_PlacementRecorded ==
    (runs >= 1 /\ pc = "returned" /\ Valid) =>
        \A e \in Entries(schedule) :
            LET job == jobs[schedule[e[1]][e[2]][e[3]].job_id]
            IN  job.assigned_worker = e[1] /\ job.thread_id = e[2]

\* C7 (Lower bound): for valid counts,
\* makespan * worker_count * threads_per_worker >= sum of the durations.
C7_LowerBound ==
    (runs >= 1 /\ Valid) =>
        total_time * num_workers * threads_per_worker >= total_job_time(jobs)

C7_Witness ==
    /\ runs >= 1 /\ Valid /\ total_time > 0
    /\ num_workers * threads_per_worker >= 2
    /\ total_time * num_workers * threads_per_worker = total_job_time(jobs)

\* C8 (Summary never divides by zero): for valid counts and a makespan of zero,
\* print_summary completes normally.
C8_SummaryCompletes ==
    (runs >= 1 /\ Valid /\ total_time = 0) => error = "none"

\* C9 (Idempotence): a second or later greedy_lpt call returns the makespan and
\* timetable of the first call and leaves each job's start_time, end_time and
\* thread_id as they were after the first call.
C9_Idempotent ==
    (runs >= 2 /\ pc \in {"returned", "summarized", "raised"}) =>
        /\ total_time = first_run.total_time
        /\ schedule = first_run.schedule
        /\ \A j \in DOMAIN jobs :
              /\ jobs[j].start_time = first_run.jobs[j].start_time
              /\ jobs[j].end_time = first_run.jobs[j].end_time
              /\ jobs[j].thread_id = first_run.jobs[j].thread_id

C9_Witness ==
    /\ runs >= 2 /\ pc = "returned" /\ Valid
    /\ Len(durations) >= 2 /\ total_time > 0

\* C10 (Utilization bound): for valid counts the sum of the durations is at most
\* (sum of the workers' completion times) * threads_per_worker, so the
\* utilization printed by print_summary lies in [0, 100].
C10_UtilizationBound ==
    (runs >= 1 /\ Valid) =>
        /\ total_job_time(jobs) <=
              SumFun(worker_times(schedule), DOMAIN schedule) * threads_per_worker
        /\ (pc = "summarized" =>
              /\ summary.utilization.den > 0
              /\ 0 <= summary.utilization.num
              /\ summary.utilization.num <= 100 * summary.utilization.den)

C10_Witness ==
    /\ pc = "summarized" /\ Valid
    /\ 0 < summary.utilization.num
    /\ summary.utilization.num < 100 * summary.utilization.den

Slots == {<<i, k>> \in (DOMAIN workers) \X (0..(threads_per_worker - 1)) :
             k \in DOMAIN workers[i].threads}

Avail(i, k) == get_available_time(workers[i].threads[k], jobs)

SlotJobs(i, k) == workers[i].threads[k].jobs

\* C11 (Empty input): for valid counts and an empty duration list greedy_lpt
\* returns makespan 0 and a timetable with every worker and, under each, every
\* one of its thread slots, each with an empty job list.
C11_EmptyInput ==
    (runs >= 1 /\ Valid /\ durations = << >>) =>
        /\ total_time = 0
        /\ DOMAIN schedule = 0..(num_workers - 1)
        /\ \A i \in DOMAIN schedule :
              /\ DOMAIN schedule[i] = 0..(threads_per_worker - 1)
              /\ \A k \in DOMAIN schedule[i] : schedule[i][k] = << >>

C11_Witness ==
    /\ runs >= 1 /\ durations = << >> /\ pc = "returned"
    /\ num_workers >= 2 /\ threads_per_worker >= 2

\* C12 (Greedy selection step): every assignment step appends the next job of
\* the sorted order to the slot of minimal available time over all slots (ties:
\* lowest worker id, then lowest thread id), with start_time that available
\* time and end_time = start_time + duration; no other slot changes.
C12_GreedyStep ==
    [][(pc = "running" /\ pc' = "running" /\ next_job' = next_job + 1) =>
          LET j == sorted_jobs[next_job]
          IN  \E s \in Slots :
                 /\ SlotJobs(s[1], s[2])' = Append(SlotJobs(s[1], s[2]), j)
                 /\ \A o \in Slots \ {s} : SlotJobs(o[1], o[2])' = SlotJobs(o[1], o[2])
                 /\ \A o \in Slots :
                       /\ Avail(s[1], s[2]) <= Avail(o[1], o[2])
                       /\ (Avail(o[1], o[2]) = Avail(s[1], s[2]) =>
                              (s[1] < o[1] \/ (s[1] = o[1] /\ s[2] <= o[2])))
                 /\ jobs'[j].start_time = Avail(s[1], s[2])
                 /\ jobs'[j].end_time = Avail(s[1], s[2]) + jobs[j].duration]_vars

C12_Witness ==
    /\ pc = "running" /\ num_workers >= 2 /\ threads_per_worker >= 2
    /\ next_job >= 4
    /\ SlotJobs(1, 1) # << >>
    /\ \E s \in Slots : Len(SlotJobs(s[1], s[2])) >= 2

\* C13 (Assignment order): the jobs are assigned in descending order of
\* duration, equal durations in ascending job id; within every thread slot the
\* durations are non-increasing along the sequence.
C13_AssignmentOrder ==
    (pc = "running" /\ Valid) =>
        /\ \A p \in 1..Len(sorted_jobs) : \A q \in (p + 1)..Len(sorted_jobs) :
              \/ jobs[sorted_jobs[p]].duration > jobs[sorted_jobs[q]].duration
              \/ /\ jobs[sorted_jobs[p]].duration = jobs[sorted_jobs[q]].duration
                 /\ sorted_jobs[p] < sorted_jobs[q]
        /\ {sorted_jobs[p] : p \in 1..Len(sorted_jobs)} = 0..(Len(durations) - 1)
        /\ UNION {{SlotJobs(s[1], s[2])[p] : p \in 1..Len(SlotJobs(s[1], s[2]))} : s \in Slots}
              = {sorted_jobs[p] : p \in 1..(next_job - 1)}
        /\ \A s \in Slots :
              \A p \in 1..(Len(SlotJobs(s[1], s[2])) - 1) :
                  jobs[SlotJobs(s[1], s[2])[p]].duration
                      >= jobs[SlotJobs(s[1], s[2])[p + 1]].duration

C13_Witness ==
    /\ pc = "running" /\ Valid /\ Len(sorted_jobs) >= 3
    /\ next_job > Len(sorted_jobs)
    /\ \E p, q \in 1..Len(durations) : p < q /\ durations[p] = durations[q]
    /\ \E p, q \in 1..Len(durations) : p < q /\ durations[p] < durations[q]
    /\ \E s \in Slots : Len(SlotJobs(s[1], s[2])) >= 2

\* C14 (No idle gaps inside a slot): after any number of assignment steps the
\* first job of every non-empty slot starts at 0 and every later job starts
\* exactly at the end_time of the job before it; the timeline of a slot shows an
\* idle segment only after the slot's last job.
C14_NoGaps ==
    /\ \A s \in Slots :
          LET js == SlotJobs(s[1], s[2])
          IN  /\ (js # << >> => jobs[js[1]].start_time = 0)
              /\ \A p \in 1..(Len(js) - 1) :
                    jobs[js[p + 1]].start_time = jobs[js[p]].end_time
    /\ (pc = "timelined" =>
          \A i \in DOMAIN timeline : \A k \in DOMAIN timeline[i] :
              \A p \in 1..(Len(timeline[i][k]) - 1) : timeline[i][k][p].kind = "J")

C14_Witness ==
    /\ pc = "timelined" /\ Valid
    /\ \E i \in DOMAIN timeline : \E k \in DOMAIN timeline[i] :
          /\ Len(timeline[i][k]) >= 3
          /\ timeline[i][k][Len(timeline[i][k])].kind = "Idle"

\* C15 (List-scheduling invariant): after any number of assignment steps, for
\* valid counts, every already-scheduled job's start_time is <= the current
\* available time of every thread slot of every worker.
C15_ListScheduling ==
    Valid =>
        \A s \in Slots : \A p \in 1..Len(SlotJobs(s[1], s[2])) : \A o \in Slots :
            jobs[SlotJobs(s[1], s[2])[p]].start_time <= Avail(o[1], o[2])

C15_Witness ==
    /\ pc = "running" /\ Valid /\ Cardinality(Slots) >= 2
    /\ \E s \in Slots : \E p \in 1..Len(SlotJobs(s[1], s[2])) :
          jobs[SlotJobs(s[1], s[2])[p]].start_time > 0

\* The output a complete pass over the input file has to produce: one record
\* per line, in line order.
ExpectedOutput == [p \in 1..Len(lines) |-> [input |-> lines[p]]]

\* C16 (Resume is exactly-once): when process_dataset starts from a checkpoint
\* and completes, no index of the checkpoint was handed to the pool again and
\* the written output holds exactly one record per input line, in line order.
C16_ResumeExactlyOnce ==
    /\ (loaded > 0 =>
          \A p \in 1..Len(all_messages) : all_messages[p].index \notin saved_indices)
    /\ ((rpc = "done" /\ loaded > 0) => output_file = Complete(ExpectedOutput))

\* C17 (Resume produces the output): once process_dataset has been interrupted
\* and a later run of it has completed normally, output_file holds one record
\* per input line and the checkpoint file is gone.
C17_ResumeProducesOutput ==
    (rpc = "done" /\ crashes >= 1) =>
        /\ output_file = Complete(ExpectedOutput)
        /\ checkpoint_file = Absent

\* C18 (Atomic checkpoint write): while save_checkpoint runs, a checkpoint path
\* that holds a complete checkpoint keeps holding a complete checkpoint (the
\* previous one or the new one) after every step.
C18_AtomicCheckpoint ==
    [][(rpc \in SaveSteps /\ checkpoint_file.kind = "complete")
          => checkpoint_file'.kind = "complete"]_vars

====
